---- MODULE Spec2Model ----
(***************************************************************************)
(* Model of NetCloth/go-sdk: the key manager (keys/key.go), the address    *)
(* derivation helpers of the same file, and the contract payload / event   *)
(* log handling of the contract-call example.                              *)
(*                                                                         *)
(* Conventions.  A Go byte slice is a sequence of 0..255, a Go string a    *)
(* sequence of one-character strings; a nil slice, a nil key and a nil     *)
(* address are the empty sequence, a nil error is the empty string.        *)
(* SHA-256, RIPEMD-160, bech32 and ECDSA signing are free (injective)      *)
(* constructors.  The curve is y^2 = x^3 + 7 as in secp256k1, over a small *)
(* prime field; encodings keep their real widths (32-byte coordinates,     *)
(* 33-byte compressed and 65-byte uncompressed keys).                      *)
(***************************************************************************)
EXTENDS Integers, Sequences, FiniteSets, TLC

VARIABLES
    privKey,     \* keyManager.privKey
    addr,        \* keyManager.addr
    ret,         \* what the last call on the manager returned
    pre,         \* the manager's fields when that call started
    loads,       \* how often the fields of this instance were populated
    phase,       \* "init" until the one-time initialisation is over
    tret,        \* per reader thread: what its last call returned
    tpc,         \* per reader thread: where it is inside Sign
    call,        \* the last address-derivation call and its result
    args,        \* the arguments of the payload under construction
    payloadStr,  \* the payload hex string built from them
    dec          \* the result of the last log decode

kmVars    == <<privKey, addr, ret, pre, loads>>
roVars    == <<phase, tret, tpc>>
addrVars  == <<call>>
codecVars == <<args, payloadStr, dec>>
vars      == <<privKey, addr, ret, pre, loads, phase, tret, tpc, call,
               args, payloadStr, dec>>

----------------------------------------------------------------------------
(* Bytes and hex strings *)

RECURSIVE Repeat(_, _)
Repeat(x, n) == IF n <= 0 THEN <<>> ELSE <<x>> \o Repeat(x, n - 1)

Min(a, b) == IF a < b THEN a ELSE b

(* s[lo:hi] of Go, 0-based and half-open, defined when 0 <= lo <= hi <= len *)
Slice(s, lo, hi) == SubSeq(s, lo + 1, hi)

LowerHex == <<"0", "1", "2", "3", "4", "5", "6", "7", "8", "9",
              "a", "b", "c", "d", "e", "f">>
UpperHex == <<"0", "1", "2", "3", "4", "5", "6", "7", "8", "9",
              "A", "B", "C", "D", "E", "F">>

IsHexChar(c) == \E i \in 1..16 : LowerHex[i] = c \/ UpperHex[i] = c

(* the value of a hex digit, either case *)
HexVal(c) == (CHOOSE i \in 1..16 : LowerHex[i] = c \/ UpperHex[i] = c) - 1

(* the ASCII code of a hex digit: what []byte(string) yields for it *)
Ascii(c) ==
    LET v == HexVal(c)
    IN  IF v < 10 THEN 48 + v
        ELSE IF LowerHex[v + 1] = c THEN 97 + (v - 10) ELSE 65 + (v - 10)

StringBytes(s) == [i \in 1..Len(s) |-> Ascii(s[i])]

(* hex.EncodeToString / hexutil.Encode: two lower-case digits per byte *)
RECURSIVE HexEncode(_)
HexEncode(bz) ==
    IF bz = <<>> THEN <<>>
    ELSE <<LowerHex[(Head(bz) \div 16) + 1], LowerHex[(Head(bz) % 16) + 1]>>
         \o HexEncode(Tail(bz))

(* hex.DecodeString: an invalid digit or an odd length is an error *)
HexDecodeString(s) ==
    IF \E i \in 1..Len(s) : ~IsHexChar(s[i])
        THEN [bz |-> <<>>, err |-> "InvalidByteError"]
    ELSE IF Len(s) % 2 = 1
        THEN [bz |-> <<>>, err |-> "ErrLength"]
    ELSE [bz  |-> [i \in 1..(Len(s) \div 2) |->
                      16 * HexVal(s[2 * i - 1]) + HexVal(s[2 * i])],
          err |-> ""]

----------------------------------------------------------------------------
(* The curve and the key encodings *)

(* the curve parameters: y^2 = x^3 + B over the field of P elements, with  *)
(* base point (Gx, Gy) of prime order N                                    *)
S256 == [P |-> 67, N |-> 79, B |-> 7, Gx |-> 2, Gy |-> 22]

Infinity == <<>>

ModInv(a) == CHOOSE i \in 1..(S256.P - 1) : (i * (a % S256.P)) % S256.P = 1

IsOnCurve(x, y) == (y * y) % S256.P = (x * x * x + S256.B) % S256.P

PointAdd(p1, p2) ==
    IF p1 = Infinity THEN p2
    ELSE IF p2 = Infinity THEN p1
    ELSE IF p1[1] = p2[1] /\ (p1[2] + p2[2]) % S256.P = 0 THEN Infinity
    ELSE LET l == IF p1 = p2
                  THEN (3 * p1[1] * p1[1] * ModInv(2 * p1[2])) % S256.P
                  ELSE ((p2[2] - p1[2] + S256.P)
                        * ModInv(p2[1] - p1[1] + S256.P)) % S256.P
             x == (l * l + 2 * S256.P - p1[1] - p2[1]) % S256.P
         IN  <<x, (l * (p1[1] - x + S256.P) + S256.P - p1[2]) % S256.P>>

RECURSIVE ScalarBaseMult(_)
ScalarBaseMult(k) ==
    IF k = 0 THEN Infinity
    ELSE PointAdd(ScalarBaseMult(k - 1), <<S256.Gx, S256.Gy>>)

(* a big-endian integer; the field is smaller than 256, so a value that    *)
(* does not fit the last byte is kept only as "256 or more"                *)
RECURSIVE SetBytes(_)
SetBytes(bz) ==
    IF bz = <<>> THEN 0
    ELSE Min(256, 256 * SetBytes(SubSeq(bz, 1, Len(bz) - 1)) + bz[Len(bz)])

(* a coordinate as 32 big-endian bytes *)
Coord(n) == Repeat(0, 31) \o <<n>>

SerializeCompressed(pt) == <<2 + (pt[2] % 2)>> \o Coord(pt[1])

SerializeUncompressed(pt) == <<4>> \o Coord(pt[1]) \o Coord(pt[2])

(* btcec.ParsePubKey: 65 bytes with magic 4 (or hybrid 6/7), or 33 bytes   *)
(* with magic 2/3; the point must lie on the curve                         *)
ParsePubKey(bz) ==
    LET bad(e) == [pt |-> Infinity, err |-> e]
        ybit   == bz[1] % 2
        format == bz[1] - ybit
        X      == SetBytes(SubSeq(bz, 2, 33))
        check(x, y) ==
            IF x >= S256.P \/ y >= S256.P THEN bad("coordinate >= P")
            ELSE IF ~IsOnCurve(x, y) THEN bad("not on curve")
            ELSE [pt |-> <<x, y>>, err |-> ""]
    IN  IF Len(bz) = 0 THEN bad("pubkey string is empty")
        ELSE IF Len(bz) = 65 THEN
            LET Y == SetBytes(SubSeq(bz, 34, 65))
            IN  IF format # 4 /\ format # 6 THEN bad("invalid magic")
                ELSE IF format = 6 /\ ybit # Y % 2 THEN bad("ybit mismatch")
                ELSE check(X, Y)
        ELSE IF Len(bz) = 33 THEN
            IF format # 2 THEN bad("invalid magic")
            ELSE IF X >= S256.P THEN bad("coordinate >= P")
            ELSE IF \E y \in 0..(S256.P - 1) : IsOnCurve(X, y) /\ y % 2 = ybit
                THEN check(X, CHOOSE y \in 0..(S256.P - 1) :
                                  IsOnCurve(X, y) /\ y % 2 = ybit)
            ELSE bad("invalid square root")
        ELSE bad("invalid pub key length")

(* the hash functions, as free constructors *)
SHA256(bz) == <<"sha256", bz>>
RIPEMD160(h) == <<"ripemd160", h>>

(* AccAddress.String(): bech32 with the chain's prefix *)
Bech32(a) == <<"nch", a>>

----------------------------------------------------------------------------
(* Keys, keystore files and the external calls of the two load paths *)

MaxLoads == 3

(* secp256k1.PrivKeySecp256k1: 32 bytes holding the scalar big-endian *)
Key(n) == Repeat(0, 31) \o <<n>>

(* PrivKeySecp256k1.PubKey(): the compressed encoding of scalar * G *)
PubKey(priv) == SerializeCompressed(ScalarBaseMult(SetBytes(priv) % S256.N))

(* PubKeySecp256k1.Address(): RIPEMD160(SHA256(the 33 key bytes)) *)
Address(pub) == RIPEMD160(SHA256(pub))

(* PubKeySecp256k1.Bytes(): the amino prefix, a length byte, the key *)
PubKeyAminoBytes(pub) == <<235, 90, 233, 135, 33>> \o pub

(* the files on disk: an encrypted-JSON keystore holds the decrypted key   *)
(* bytes and the passphrase that authenticates, an armored file the same,  *)
(* any other file is plain text                                            *)
Files ==
    ( "ks1.json"   :> [fmt |-> "json",  pass |-> "pw1", key |-> Key(1)] ) @@
    ( "ks2.json"   :> [fmt |-> "json",  pass |-> "pw2", key |-> Key(2)] ) @@
    ( "short.json" :> [fmt |-> "json",  pass |-> "pw1",
                       key |-> Repeat(0, 30) \o <<6>>] ) @@
    ( "long.json"  :> [fmt |-> "json",  pass |-> "pw1",
                       key |-> Repeat(0, 31) \o <<5, 9>>] ) @@
    ( "k3.armor"   :> [fmt |-> "armor", pass |-> "pw1", key |-> Key(3)] ) @@
    ( "k4.armor"   :> [fmt |-> "armor", pass |-> "pw2", key |-> Key(4)] ) @@
    ( "notes.txt"  :> [fmt |-> "text",  pass |-> "",    key |-> <<>>] )

FileNames == DOMAIN Files \cup {"missing"}
Passphrases == {"", "pw1", "pw2"}

NoData == [fmt |-> "none", pass |-> "", key |-> <<>>]

(* ioutil.ReadFile *)
ReadFile(name) ==
    IF name \in DOMAIN Files THEN [data |-> Files[name], err |-> ""]
    ELSE [data |-> NoData, err |-> "open: no such file or directory"]

(* json.Unmarshal into EncryptedKeyJSON *)
Unmarshal(data) ==
    IF data.fmt = "json" THEN [v |-> data, err |-> ""]
    ELSE [v |-> NoData, err |-> "invalid character"]

(* decryptKey: derive the key from the passphrase, verify the MAC, decrypt *)
decryptKey(encryptedKey, auth) ==
    IF encryptedKey.pass = auth THEN [keyBytes |-> encryptedKey.key, err |-> ""]
    ELSE [keyBytes |-> <<>>, err |-> "could not decrypt key with given passphrase"]

(* mintkey.UnarmorDecryptPrivKey *)
UnarmorDecryptPrivKey(armor, passphrase) ==
    IF armor.fmt # "armor" THEN [privKey |-> <<>>, err |-> "unrecognized armor type"]
    ELSE IF armor.pass # passphrase
        THEN [privKey |-> <<>>, err |-> "invalid account password"]
    ELSE [privKey |-> armor.key, err |-> ""]

(* copy(dst[:], src) into a 32-byte array: as many bytes as src has *)
CopyTo32(src) == [i \in 1..32 |-> IF i <= Len(src) THEN src[i] ELSE 0]

----------------------------------------------------------------------------
(* keyManager: the two load methods.  k is the manager, [privKey, addr];   *)
(* the result carries the manager afterwards, the error and the external   *)
(* calls made, in order.                                                   *)

LoadResult(k, e, st) == [privKey |-> k.privKey, addr |-> k.addr, err |-> e, steps |-> st]

(* variant: the private key is stored before the length is checked *)
recoveryFromKeyStore_StoresBeforeCheck(k, keystoreFile, auth) ==
    LET f  == ReadFile(keystoreFile)
        j  == Unmarshal(f.data)
        d  == decryptKey(j.v, auth)
        pk == CopyTo32(d.keyBytes)
    IN  IF auth = "" THEN LoadResult(k, "Password is missing ", <<>>)
        ELSE IF f.err # "" THEN LoadResult(k, f.err, <<"ReadFile">>)
        ELSE IF j.err # "" THEN LoadResult(k, j.err, <<"ReadFile", "Unmarshal">>)
        ELSE IF d.err # ""
            THEN LoadResult(k, d.err, <<"ReadFile", "Unmarshal", "decryptKey">>)
        ELSE IF Len(d.keyBytes) # 32
            THEN LoadResult([privKey |-> pk, addr |-> k.addr],
                            "Len of Keybytes is not equal to 32 ",
                            <<"ReadFile", "Unmarshal", "decryptKey">>)
        ELSE LoadResult([privKey |-> pk, addr |-> Address(PubKey(pk))], "",
                        <<"ReadFile", "Unmarshal", "decryptKey">>)

(* variant: no length check, the key is truncated or zero-padded *)
recoveryFromKeyStore_NoLengthCheck(k, keystoreFile, auth) ==
    LET f  == ReadFile(keystoreFile)
        j  == Unmarshal(f.data)
        d  == decryptKey(j.v, auth)
        pk == CopyTo32(d.keyBytes)
    IN  IF auth = "" THEN LoadResult(k, "Password is missing ", <<>>)
        ELSE IF f.err # "" THEN LoadResult(k, f.err, <<"ReadFile">>)
        ELSE IF j.err # "" THEN LoadResult(k, j.err, <<"ReadFile", "Unmarshal">>)
        ELSE IF d.err # ""
            THEN LoadResult(k, d.err, <<"ReadFile", "Unmarshal", "decryptKey">>)
        ELSE LoadResult([privKey |-> pk, addr |-> Address(PubKey(pk))], "",
                        <<"ReadFile", "Unmarshal", "decryptKey">>)

recoveryFromKeyStore(k, keystoreFile, auth) ==
    LET f  == ReadFile(keystoreFile)
        j  == Unmarshal(f.data)
        d  == decryptKey(j.v, auth)
        pk == CopyTo32(d.keyBytes)
    IN  IF auth = "" THEN LoadResult(k, "Password is missing ", <<>>)
        ELSE IF f.err # "" THEN LoadResult(k, f.err, <<"ReadFile">>)
        ELSE IF j.err # "" THEN LoadResult(k, j.err, <<"ReadFile", "Unmarshal">>)
        ELSE IF d.err # ""
            THEN LoadResult(k, d.err, <<"ReadFile", "Unmarshal", "decryptKey">>)
        ELSE IF Len(d.keyBytes) # 32
            THEN LoadResult(k, "Len of Keybytes is not equal to 32 ",
                            <<"ReadFile", "Unmarshal", "decryptKey">>)
        ELSE LoadResult([privKey |-> pk, addr |-> Address(PubKey(pk))], "",
                        <<"ReadFile", "Unmarshal", "decryptKey">>)

ImportKeystore(k, keystoreFile, passphrase) ==
    LET f == ReadFile(keystoreFile)
        u == UnarmorDecryptPrivKey(f.data, passphrase)
    IN  IF passphrase = "" THEN LoadResult(k, "Password is missing ", <<>>)
        ELSE IF f.err # "" THEN LoadResult(k, f.err, <<"ReadFile">>)
        ELSE IF u.err # ""
            THEN LoadResult(k, "couldn't import private key",
                            <<"ReadFile", "UnarmorDecryptPrivKey">>)
        ELSE LoadResult([privKey |-> u.privKey, addr |-> Address(PubKey(u.privKey))],
                        "", <<"ReadFile", "UnarmorDecryptPrivKey">>)

(* keyManager{} *)
EmptyManager == [privKey |-> <<>>, addr |-> <<>>]

----------------------------------------------------------------------------
(* keyManager: signing and the getters *)

(* tx.StdSignMsg values handed to Sign *)
SignMsgs ==
    { [ChainID |-> "nch-chain", AccountNumber |-> 7, Sequence |-> sq,
       Fee |-> <<"unch", 100>>, Msgs |-> ms, Memo |-> mm] :
        sq \in {1, 2}, ms \in {<<"send">>, <<"send", "claim">>}, mm \in {"", "memo"} }

NoMsg == [ChainID |-> "", AccountNumber |-> 0, Sequence |-> 0,
          Fee |-> <<"", 0>>, Msgs |-> <<>>, Memo |-> ""]

(* raw byte strings handed to SignBytes *)
RawMsgs == {<<1, 2, 3>>, <<>>}

(* StdSignMsg.Bytes(): the sign document as sorted JSON *)
Bytes(msg) ==
    <<"account_number", msg.AccountNumber, "chain_id", msg.ChainID,
      "fee", msg.Fee, "memo", msg.Memo, "msgs", msg.Msgs,
      "sequence", msg.Sequence>>

(* crypto.PrivKey.Sign: a deterministic signature over SHA256(msg), or the *)
(* signer's error                                                          *)
PrivKeySign(priv, msg, signOk) ==
    IF signOk THEN [sig |-> <<"ecdsa", priv, SHA256(msg)>>, err |-> ""]
    ELSE [sig |-> <<>>, err |-> "signing failed"]

(* auth.NewStdTx *)
NewStdTx(msgs, fee, sigs, memo) ==
    [Msgs |-> msgs, Fee |-> fee, Signatures |-> sigs, Memo |-> memo]

(* tx.Cdc.MarshalBinaryLengthPrefixed: the length, then the fields in order *)
MarshalBinaryLengthPrefixed(stdTx, marshalOk) ==
    IF marshalOk
    THEN [bz  |-> <<Len(stdTx.Msgs) + Len(stdTx.Signatures) + 2>>
                  \o <<stdTx.Msgs, stdTx.Fee, stdTx.Signatures, stdTx.Memo>>,
          err |-> ""]
    ELSE [bz |-> <<>>, err |-> "amino: cannot encode"]

NoSig == [PubKey |-> <<>>, Signature |-> <<>>]

(* a method called through the nil privKey of an uninitialised manager     *)
(* panics with a nil dereference                                           *)
Panic == [bz |-> <<>>, err |-> "", panicked |-> TRUE]

(* variant: the signature covers the messages only, not the sign document *)
makeSignature_SignsMsgsOnly(k, msg, signOk) ==
    LET s == PrivKeySign(k.privKey, msg.Msgs, signOk)
    IN  IF k.privKey = <<>> THEN [sig |-> NoSig, err |-> "", panicked |-> TRUE]
        ELSE IF s.err # "" THEN [sig |-> NoSig, err |-> s.err, panicked |-> FALSE]
        ELSE [sig |-> [PubKey |-> PubKey(k.privKey), Signature |-> s.sig],
              err |-> "", panicked |-> FALSE]

makeSignature(k, msg, signOk) ==
    LET s == PrivKeySign(k.privKey, Bytes(msg), signOk)
    IN  IF k.privKey = <<>> THEN [sig |-> NoSig, err |-> "", panicked |-> TRUE]
        ELSE IF s.err # "" THEN [sig |-> NoSig, err |-> s.err, panicked |-> FALSE]
        ELSE [sig |-> [PubKey |-> PubKey(k.privKey), Signature |-> s.sig],
              err |-> "", panicked |-> FALSE]

(* variant: a failed serialisation still hands back the signature bytes *)
SignAssemble_LeaksSignature(msg, sig, marshalOk) ==
    LET m == MarshalBinaryLengthPrefixed(
                 NewStdTx(msg.Msgs, msg.Fee, <<sig>>, msg.Memo), marshalOk)
    IN  IF m.err # "" THEN [bz |-> sig.Signature, err |-> m.err, panicked |-> FALSE]
        ELSE [bz |-> m.bz, err |-> "", panicked |-> FALSE]

(* the second half of Sign: assemble and serialise *)
SignAssemble(msg, sig, marshalOk) ==
    LET m == MarshalBinaryLengthPrefixed(
                 NewStdTx(msg.Msgs, msg.Fee, <<sig>>, msg.Memo), marshalOk)
    IN  IF m.err # "" THEN [bz |-> <<>>, err |-> m.err, panicked |-> FALSE]
        ELSE [bz |-> m.bz, err |-> "", panicked |-> FALSE]

Sign(k, msg, signOk, marshalOk) ==
    LET s == makeSignature(k, msg, signOk)
    IN  IF s.panicked THEN Panic
        ELSE IF s.err # "" THEN [bz |-> <<>>, err |-> s.err, panicked |-> FALSE]
        ELSE SignAssemble(msg, s.sig, marshalOk)

SignBytes(k, msg, signOk) ==
    LET s == PrivKeySign(k.privKey, msg, signOk)
    IN  IF k.privKey = <<>> THEN Panic
        ELSE [bz |-> s.sig, err |-> s.err, panicked |-> FALSE]

GetPrivKey(k) == k.privKey

(* variant: the address is recomputed from the amino-encoded public key *)
GetAddr_Recomputes(k) == Address(PubKeyAminoBytes(PubKey(k.privKey)))

GetAddr(k) == k.addr

GetUCPubKey(k) ==
    LET p == ParsePubKey(Slice(PubKeyAminoBytes(PubKey(GetPrivKey(k))), 5, 38))
    IN  IF GetPrivKey(k) = <<>> THEN Panic
        ELSE IF p.err # "" THEN [bz |-> <<>>, err |-> p.err, panicked |-> FALSE]
        ELSE [bz |-> SerializeUncompressed(p.pt), err |-> "", panicked |-> FALSE]

----------------------------------------------------------------------------
(* The key manager as a state machine: one instance, any sequence of calls *)

NoRet == [op |-> "none", file |-> "", auth |-> "", msg |-> NoMsg, raw |-> <<>>,
          signOk |-> TRUE, marshalOk |-> TRUE,
          err |-> "", bz |-> <<>>, steps |-> <<>>, panicked |-> FALSE]

K == [privKey |-> privKey, addr |-> addr]

RoIdle   == phase = "off" /\ tret = <<>> /\ tpc = <<>>
AddrIdle == call = <<>>
CodecIdle == args = <<>> /\ payloadStr = <<>> /\ dec = <<>>

KmInit ==
    /\ privKey = <<>>
    /\ addr = <<>>
    /\ ret = NoRet
    /\ pre = EmptyManager
    /\ loads = 0

(* the effect of a load on instance k0 *)
Loaded(opname, k0, n0, r, file, auth) ==
    /\ privKey' = r.privKey
    /\ addr' = r.addr
    /\ pre' = k0
    /\ loads' = IF r.err = "" THEN n0 + 1 ELSE n0
    /\ ret' = [NoRet EXCEPT !.op = opname, !.file = file, !.auth = auth,
                            !.err = r.err, !.steps = r.steps]

CallRecoveryFromKeyStore ==
    /\ loads < MaxLoads
    /\ \E file \in FileNames, auth \in Passphrases :
        Loaded("recoveryFromKeyStore", K, loads,
               recoveryFromKeyStore(K, file, auth), file, auth)
    /\ UNCHANGED <<roVars, addrVars, codecVars>>

CallImportKeystore ==
    /\ loads < MaxLoads
    /\ \E file \in FileNames, auth \in Passphrases :
        Loaded("ImportKeystore", K, loads,
               ImportKeystore(K, file, auth), file, auth)
    /\ UNCHANGED <<roVars, addrVars, codecVars>>

NewKeyStoreKeyManager ==
    /\ \E file \in FileNames, auth \in Passphrases :
        Loaded("NewKeyStoreKeyManager", EmptyManager, 0,
               recoveryFromKeyStore(EmptyManager, file, auth), file, auth)
    /\ UNCHANGED <<roVars, addrVars, codecVars>>

NewKeystoreByImportKeystore ==
    /\ \E file \in FileNames, auth \in Passphrases :
        Loaded("NewKeystoreByImportKeystore", EmptyManager, 0,
               ImportKeystore(EmptyManager, file, auth), file, auth)
    /\ UNCHANGED <<roVars, addrVars, codecVars>>

(* a call that reads the manager and returns r *)
Returned(r0, r) ==
    /\ ret' = [r0 EXCEPT !.err = r.err, !.bz = r.bz, !.panicked = r.panicked]
    /\ pre' = K
    /\ UNCHANGED <<privKey, addr, loads>>

CallSign ==
    /\ \E msg \in SignMsgs, signOk \in BOOLEAN, marshalOk \in BOOLEAN :
        Returned([NoRet EXCEPT !.op = "Sign", !.msg = msg, !.signOk = signOk,
                               !.marshalOk = marshalOk],
                 Sign(K, msg, signOk, marshalOk))
    /\ UNCHANGED <<roVars, addrVars, codecVars>>

CallSignBytes ==
    /\ \E raw \in RawMsgs \cup {Bytes(m) : m \in SignMsgs}, signOk \in BOOLEAN :
        Returned([NoRet EXCEPT !.op = "SignBytes", !.raw = raw, !.signOk = signOk],
                 SignBytes(K, raw, signOk))
    /\ UNCHANGED <<roVars, addrVars, codecVars>>

Init == KmInit /\ RoIdle /\ AddrIdle /\ CodecIdle

Next ==
    \/ CallRecoveryFromKeyStore
    \/ CallImportKeystore
    \/ NewKeyStoreKeyManager
    \/ NewKeystoreByImportKeystore
    \/ CallSign
    \/ CallSignBytes

Spec == Init /\ [][Next]_vars

----------------------------------------------------------------------------
(* Properties of the key manager *)

LoadOps == {"recoveryFromKeyStore", "ImportKeystore"}
NewOps  == {"NewKeyStoreKeyManager", "NewKeystoreByImportKeystore"}

(* C1: one-shot initialisation.  A load called on a manager whose fields   *)
(* are already populated is rejected with AlreadyInitialized and leaves    *)
(* privKey and addr as they were; the fields of one instance are never     *)
(* populated more than once.                                               *)
C1_OneShotInitialization ==
    /\ loads <= 1
    /\ (ret.op \in LoadOps /\ pre.privKey # <<>>) =>
           /\ ret.err = "AlreadyInitialized"
           /\ privKey = pre.privKey
           /\ addr = pre.addr

(* C2: all-or-nothing key state.  In every reachable state privKey and     *)
(* addr are both unset, or addr is the address of privKey's public key;    *)
(* a load or constructor that returns an error changes neither field.      *)
C2_AllOrNothingKeyState ==
    /\ \/ privKey = <<>> /\ addr = <<>>
       \/ privKey # <<>> /\ addr = Address(PubKey(privKey))
    /\ (ret.op \in LoadOps \cup NewOps /\ ret.err # "") =>
           privKey = pre.privKey /\ addr = pre.addr

(* a failed load on a manager that already holds a key *)
C2_Witness ==
    /\ ret.op \in LoadOps
    /\ ret.err # ""
    /\ privKey # <<>>
    /\ ret.file = "short.json"
    /\ ret.auth = "pw1"

(* C6: Sign is all-or-nothing.  When signing or serialising fails Sign     *)
(* returns nil bytes with the error; it returns bytes only when both       *)
(* steps succeeded; the manager's fields are the same before and after.    *)
C6_SignAllOrNothing ==
    ret.op = "Sign" =>
        /\ ret.err # "" => ret.bz = <<>>
        /\ ret.bz # <<>> => ret.signOk /\ ret.marshalOk /\ ret.err = ""
        /\ (~ret.panicked /\ ~(ret.signOk /\ ret.marshalOk)) =>
               ret.bz = <<>> /\ ret.err # ""
        /\ privKey = pre.privKey
        /\ addr = pre.addr

(* a Sign whose signature was made and whose serialisation failed *)
C6_Witness ==
    /\ ret.op = "Sign"
    /\ privKey # <<>>
    /\ ret.signOk
    /\ ~ret.marshalOk
    /\ ret.err # ""

(* C8: the encrypted-JSON load returns nil exactly when the passphrase is  *)
(* non-empty, the file is readable, it parses, decryptKey succeeds and the *)
(* key has 32 bytes; the checks run in that order (an empty passphrase is  *)
(* rejected before the file is read); a key of another length is rejected  *)
(* with an error and no private key is made of it.                         *)
C8_EncryptedJsonLoadChecks ==
    ret.op \in {"recoveryFromKeyStore", "NewKeyStoreKeyManager"} =>
        LET f == ReadFile(ret.file)
            j == Unmarshal(f.data)
            d == decryptKey(j.v, ret.auth)
            passOk == ret.auth # ""
            readOk == passOk /\ f.err = ""
            jsonOk == readOk /\ j.err = ""
            decrOk == jsonOk /\ d.err = ""
            lenOk  == decrOk /\ Len(d.keyBytes) = 32
        IN  /\ ret.err = "" <=> lenOk
            /\ ~passOk => ret.steps = <<>>
            /\ (passOk /\ ~readOk) => ret.steps = <<"ReadFile">>
            /\ (readOk /\ ~jsonOk) => ret.steps = <<"ReadFile", "Unmarshal">>
            /\ jsonOk => ret.steps = <<"ReadFile", "Unmarshal", "decryptKey">>
            /\ (decrOk /\ ~lenOk) =>
                   /\ ret.err = "Len of Keybytes is not equal to 32 "
                   /\ privKey = pre.privKey
                   /\ addr = pre.addr
            /\ lenOk => privKey = d.keyBytes

(* a decrypted key of 33 bytes *)
C8_Witness ==
    /\ ret.op = "recoveryFromKeyStore"
    /\ ret.file = "long.json"
    /\ ret.auth = "pw1"
    /\ ret.err # ""

(* C10: composition of Sign.  A successful Sign(msg) serialises a          *)
(* transaction with msg's Msgs, Fee and Memo and exactly one signature,    *)
(* whose PubKey is that of the manager's privKey and whose bytes are what  *)
(* SignBytes(msg.Bytes()) produces with that key.                          *)
C10_SignComposition ==
    (ret.op = "Sign" /\ ret.err = "" /\ ~ret.panicked) =>
        /\ Len(ret.bz) = 5
        /\ ret.bz[2] = ret.msg.Msgs
        /\ ret.bz[3] = ret.msg.Fee
        /\ ret.bz[5] = ret.msg.Memo
        /\ Len(ret.bz[4]) = 1
        /\ ret.bz[4][1].PubKey = PubKey(privKey)
        /\ ret.bz[4][1].Signature = SignBytes(K, Bytes(ret.msg), TRUE).bz
        /\ ret.bz[4][1].Signature = <<"ecdsa", privKey, SHA256(Bytes(ret.msg))>>

(* a successful Sign of a message with a memo and two msgs *)
C10_Witness ==
    /\ ret.op = "Sign"
    /\ ret.err = ""
    /\ ret.bz # <<>>
    /\ ret.msg.Memo = "memo"
    /\ Len(ret.msg.Msgs) = 2

----------------------------------------------------------------------------
(* Concurrent readers: the manager is initialised once by a constructor,   *)
(* then NumThreads threads call its methods in any interleaving.  Sign is  *)
(* two steps, makeSignature and the assembly, so that other threads' calls *)
(* fall between them.                                                      *)

NumThreads == 2

Threads == 1..NumThreads

ReaderMsgs == {m \in SignMsgs : m.Sequence = 1 /\ Len(m.Msgs) = 1}

NoTRet == [op |-> "none", msg |-> NoMsg, raw |-> <<>>, sig |-> NoSig,
           bz |-> <<>>, err |-> "", panicked |-> FALSE]

InitRO ==
    /\ KmInit
    /\ phase = "init"
    /\ tret = [t \in Threads |-> NoTRet]
    /\ tpc = [t \in Threads |-> "idle"]
    /\ AddrIdle
    /\ CodecIdle

Initialize ==
    /\ phase = "init"
    /\ \E file \in FileNames, auth \in Passphrases, json \in BOOLEAN :
        LET r == IF json THEN recoveryFromKeyStore(EmptyManager, file, auth)
                 ELSE ImportKeystore(EmptyManager, file, auth)
        IN  /\ privKey' = r.privKey
            /\ addr' = r.addr
            /\ pre' = EmptyManager
            /\ loads' = IF r.err = "" THEN 1 ELSE 0
            /\ ret' = [NoRet EXCEPT
                          !.op = IF json THEN "NewKeyStoreKeyManager"
                                 ELSE "NewKeystoreByImportKeystore",
                          !.file = file, !.auth = auth,
                          !.err = r.err, !.steps = r.steps]
            /\ phase' = IF r.err = "" THEN "ready" ELSE "init"
    /\ UNCHANGED <<tret, tpc, addrVars, codecVars>>

(* thread t returns r from a call that only reads the manager *)
TReturned(t, r0, r) ==
    /\ tret' = [tret EXCEPT ![t] =
                   [r0 EXCEPT !.bz = r.bz, !.err = r.err, !.panicked = r.panicked]]
    /\ tpc' = [tpc EXCEPT ![t] = "idle"]
    /\ UNCHANGED <<kmVars, phase, addrVars, codecVars>>

Value(v) == [bz |-> v, err |-> "", panicked |-> FALSE]

TGetAddr(t) ==
    /\ phase = "ready" /\ tpc[t] = "idle"
    /\ TReturned(t, [NoTRet EXCEPT !.op = "GetAddr"], Value(GetAddr(K)))

TGetPrivKey(t) ==
    /\ phase = "ready" /\ tpc[t] = "idle"
    /\ TReturned(t, [NoTRet EXCEPT !.op = "GetPrivKey"], Value(GetPrivKey(K)))

TGetUCPubKey(t) ==
    /\ phase = "ready" /\ tpc[t] = "idle"
    /\ TReturned(t, [NoTRet EXCEPT !.op = "GetUCPubKey"], GetUCPubKey(K))

TSignBytes(t) ==
    /\ phase = "ready" /\ tpc[t] = "idle"
    /\ \E raw \in RawMsgs, signOk \in BOOLEAN :
        TReturned(t, [NoTRet EXCEPT !.op = "SignBytes", !.raw = raw],
                  SignBytes(K, raw, signOk))

TSignMake(t) ==
    /\ phase = "ready" /\ tpc[t] = "idle"
    /\ \E msg \in ReaderMsgs, signOk \in BOOLEAN :
        LET s == makeSignature(K, msg, signOk)
        IN  IF s.panicked \/ s.err # ""
            THEN TReturned(t, [NoTRet EXCEPT !.op = "Sign", !.msg = msg],
                           [bz |-> <<>>, err |-> s.err, panicked |-> s.panicked])
            ELSE /\ tret' = [tret EXCEPT ![t] =
                                [NoTRet EXCEPT !.op = "Sign", !.msg = msg,
                                               !.sig = s.sig]]
                 /\ tpc' = [tpc EXCEPT ![t] = "assemble"]
                 /\ UNCHANGED <<kmVars, phase, addrVars, codecVars>>

TSignAssemble(t) ==
    /\ phase = "ready" /\ tpc[t] = "assemble"
    /\ \E marshalOk \in BOOLEAN :
        TReturned(t, tret[t], SignAssemble(tret[t].msg, tret[t].sig, marshalOk))

NextRO ==
    \/ Initialize
    \/ \E t \in Threads :
        \/ TGetAddr(t)
        \/ TGetPrivKey(t)
        \/ TGetUCPubKey(t)
        \/ TSignBytes(t)
        \/ TSignMake(t)
        \/ TSignAssemble(t)

SpecRO == InitRO /\ [][NextRO]_vars

(* C7: single writer, then many readers.  Once the manager is initialised  *)
(* and no further load is invoked, no step of a concurrent GetAddr,        *)
(* GetPrivKey, GetUCPubKey, SignBytes or Sign writes privKey or addr, and  *)
(* every GetAddr returns the address of the held key's public key (so all  *)
(* GetAddr calls return the same address).                                 *)
C7_ReadersNeverWrite ==
    /\ [](phase = "ready" =>
            \A t \in Threads :
                (tret[t].op = "GetAddr" /\ tpc[t] = "idle") =>
                    /\ tret[t].bz = Address(PubKey(privKey))
                    /\ \A u \in Threads :
                        (tret[u].op = "GetAddr" /\ tpc[u] = "idle") =>
                            tret[u].bz = tret[t].bz)
    /\ [][phase = "ready" => (privKey' = privKey /\ addr' = addr)]_vars

(* a thread has read the address while another thread is between the two  *)
(* steps of Sign                                                           *)
C7_Witness ==
    /\ phase = "ready"
    /\ \E t \in Threads, u \in Threads :
        /\ t # u
        /\ tret[t].op = "GetAddr"
        /\ tpc[u] = "assemble"

----------------------------------------------------------------------------
(* Address derivation from public key strings *)

(* copy(pk[:], src) into a PubKeySecp256k1, a 33-byte array *)
CopyTo33(src) == [i \in 1..33 |-> IF i <= Len(src) THEN src[i] ELSE 0]

GetCompressedPubKey(uncompressedPubKey) ==
    LET h == HexDecodeString(uncompressedPubKey)
        p == ParsePubKey(h.bz)
    IN  IF h.err # "" THEN [bz |-> <<>>, err |-> h.err]
        ELSE IF p.err # "" THEN [bz |-> <<>>, err |-> p.err]
        ELSE [bz |-> SerializeCompressed(p.pt), err |-> ""]

(* the results carry, beside the value and the error, the bytes that were  *)
(* fed to SHA-256                                                          *)
GetCompressedAddress(uncompressedPubKey) ==
    LET c == GetCompressedPubKey(uncompressedPubKey)
    IN  IF c.err # "" THEN [out |-> <<>>, err |-> c.err, hashed |-> <<>>]
        ELSE [out |-> RIPEMD160(SHA256(c.bz)), err |-> "", hashed |-> c.bz]

GetUCAddressBech32(uncompressedPubKey) ==
    LET a == GetCompressedAddress(uncompressedPubKey)
    IN  IF a.err # "" THEN [out |-> <<>>, err |-> a.err, hashed |-> <<>>]
        ELSE [out |-> Bech32(a.out), err |-> "", hashed |-> a.hashed]

GetBech32AddrByPubkeyStr(pubkeyStr) ==
    LET h  == HexDecodeString(pubkeyStr)
        pk == CopyTo33(h.bz)
    IN  IF Len(pubkeyStr) = 0
            THEN [out |-> <<>>, err |-> "pubkey invalid", hashed |-> <<>>]
        ELSE IF h.err # "" THEN [out |-> <<>>, err |-> h.err, hashed |-> <<>>]
        ELSE [out |-> Bech32(Address(pk)), err |-> "", hashed |-> pk]

GetBech32AddrByPubkey(pubkey) ==
    [out |-> Bech32(Address(pubkey)), err |-> "", hashed |-> pubkey]

(* the points of the curve, and the key strings given to the entry points: *)
(* both encodings of every point, and strings that are no key at all       *)
CurvePoints ==
    {pt \in (0..(S256.P - 1)) \X (0..(S256.P - 1)) : IsOnCurve(pt[1], pt[2])}

Encodings == {"uncompressed", "compressed"}

KeyString(pt, enc) ==
    IF enc = "uncompressed" THEN HexEncode(SerializeUncompressed(pt))
    ELSE HexEncode(SerializeCompressed(pt))

NotKeyStrings ==
    { <<>>, <<"0">>, <<"z", "z">>, <<"0", "4">>,
      HexEncode(<<4>> \o Coord(S256.Gx) \o Coord(S256.Gy + 1)),
      HexEncode(<<5>> \o Coord(S256.Gx)) }

NoCall == [fn |-> "none", pt |-> Infinity, enc |-> "none", input |-> <<>>,
           out |-> <<>>, err |-> "", hashed |-> <<>>]

InitAddr ==
    /\ KmInit
    /\ RoIdle
    /\ call = NoCall
    /\ CodecIdle

Derived(fn, pt, enc, input, r) ==
    call' = [fn |-> fn, pt |-> pt, enc |-> enc, input |-> input,
             out |-> r.out, err |-> r.err, hashed |-> r.hashed]

CallGetCompressedAddress ==
    /\ \/ \E pt \in CurvePoints, enc \in Encodings :
            Derived("GetCompressedAddress", pt, enc, KeyString(pt, enc),
                    GetCompressedAddress(KeyString(pt, enc)))
       \/ \E str \in NotKeyStrings :
            Derived("GetCompressedAddress", Infinity, "none", str,
                    GetCompressedAddress(str))
    /\ UNCHANGED <<kmVars, roVars, codecVars>>

CallGetUCAddressBech32 ==
    /\ \/ \E pt \in CurvePoints, enc \in Encodings :
            Derived("GetUCAddressBech32", pt, enc, KeyString(pt, enc),
                    GetUCAddressBech32(KeyString(pt, enc)))
       \/ \E str \in NotKeyStrings :
            Derived("GetUCAddressBech32", Infinity, "none", str,
                    GetUCAddressBech32(str))
    /\ UNCHANGED <<kmVars, roVars, codecVars>>

CallGetBech32AddrByPubkeyStr ==
    /\ \/ \E pt \in CurvePoints, enc \in Encodings :
            Derived("GetBech32AddrByPubkeyStr", pt, enc, KeyString(pt, enc),
                    GetBech32AddrByPubkeyStr(KeyString(pt, enc)))
       \/ \E str \in NotKeyStrings :
            Derived("GetBech32AddrByPubkeyStr", Infinity, "none", str,
                    GetBech32AddrByPubkeyStr(str))
    /\ UNCHANGED <<kmVars, roVars, codecVars>>

CallGetBech32AddrByPubkey ==
    /\ \E pt \in CurvePoints :
        Derived("GetBech32AddrByPubkey", pt, "compressed",
                HexEncode(SerializeCompressed(pt)),
                GetBech32AddrByPubkey(SerializeCompressed(pt)))
    /\ UNCHANGED <<kmVars, roVars, codecVars>>

NextAddr ==
    \/ CallGetCompressedAddress
    \/ CallGetUCAddressBech32
    \/ CallGetBech32AddrByPubkeyStr
    \/ CallGetBech32AddrByPubkey

SpecAddr == InitAddr /\ [][NextAddr]_vars

(* C5: compress before hash, in every address derivation.  For every valid *)
(* public key, each entry point that accepts key bytes derives from the    *)
(* 65-byte uncompressed encoding the same address as from the 33-byte      *)
(* compressed one, RIPEMD160(SHA256(compressed key)); the bytes hashed are *)
(* always the compressed key, never the uncompressed or a truncated one.   *)
C5_CompressBeforeHash ==
    (call.fn \in {"GetCompressedAddress", "GetUCAddressBech32",
                  "GetBech32AddrByPubkeyStr"} /\ call.enc \in Encodings) =>
        LET a == RIPEMD160(SHA256(SerializeCompressed(call.pt)))
        IN  /\ call.err = ""
            /\ call.hashed = SerializeCompressed(call.pt)
            /\ call.out = IF call.fn = "GetCompressedAddress" THEN a ELSE Bech32(a)

----------------------------------------------------------------------------
(* The contract call payload (Test_ContractCall) *)

functionSig == <<"a", "a", "a", "8", "8", "1", "8", "5">>

fromPubkeyHexString ==
    << "0", "2", "f", "c", "9", "5", "0", "f", "1", "e", "6", "2", "b",
       "9", "b", "2", "b", "3", "6", "9", "4", "4", "8", "f", "4", "2",
       "2", "8", "0", "8", "a", "f", "7", "d", "5", "7", "d", "b", "d",
       "6", "f", "f", "c", "0", "f", "d", "b", "b", "f", "2", "f", "5",
       "8", "4", "9", "b", "8", "4", "7", "2", "8", "5", "e", "d", "a",
       "8" >>

fromAddr ==
    << "A", "C", "4", "6", "A", "4", "4", "1", "F", "A", "A", "2", "6",
       "7", "0", "8", "B", "7", "7", "8", "3", "E", "C", "4", "8", "D",
       "8", "7", "4", "2", "C", "7", "4", "C", "9", "F", "7", "9", "2",
       "7" >>

rHexString ==
    << "8", "3", "0", "f", "6", "6", "a", "9", "8", "f", "e", "b", "6",
       "6", "4", "f", "3", "1", "2", "5", "9", "3", "f", "0", "c", "3",
       "f", "c", "9", "b", "1", "9", "e", "b", "2", "4", "d", "6", "7",
       "b", "a", "a", "e", "8", "9", "4", "5", "5", "4", "c", "1", "f",
       "4", "4", "e", "d", "3", "a", "a", "d", "5", "a", "8", "e" >>

sHexString ==
    << "0", "f", "a", "9", "a", "3", "e", "5", "b", "2", "a", "9", "3",
       "5", "6", "c", "8", "8", "7", "6", "2", "4", "7", "5", "0", "5",
       "3", "9", "7", "5", "3", "c", "d", "c", "c", "2", "9", "3", "4",
       "8", "6", "7", "5", "0", "3", "2", "2", "5", "e", "7", "a", "f",
       "5", "6", "0", "8", "5", "3", "4", "4", "4", "4", "c", "4" >>

Zeros(n) == Repeat("0", n)

Lit(text) == [verb |-> "lit", text |-> text]
VerbS     == [verb |-> "%s", text |-> <<>>]
Verb064x  == [verb |-> "%064x", text |-> <<>>]

(* variant: the second offset word is 0x160, as if the first blob were     *)
(* padded to 64 bytes                                                      *)
payloadTemplate_WrongOffset ==
    << VerbS,
       Lit(Zeros(61) \o <<"1", "0", "0">> \o Zeros(61) \o <<"1", "6", "0">>
           \o Zeros(24)),
       VerbS, Verb064x, Verb064x, VerbS, VerbS, Verb064x,
       Lit(Zeros(62) \o <<"4", "2">>),
       VerbS,
       Lit(Zeros(60) \o Zeros(62) \o <<"4", "2">>),
       VerbS,
       Lit(Zeros(60)) >>

(* the format string: the selector, the two offset words 0x100 and 0x180   *)
(* and the 12 bytes of padding before the address, the address, type,      *)
(* timestamp, r, s, v, then twice a length word 0x42 and a blob followed   *)
(* by 30 bytes of padding                                                  *)
payloadTemplate ==
    << VerbS,
       Lit(Zeros(61) \o <<"1", "0", "0">> \o Zeros(61) \o <<"1", "8", "0">>
           \o Zeros(24)),
       VerbS, Verb064x, Verb064x, VerbS, VerbS, Verb064x,
       Lit(Zeros(62) \o <<"4", "2">>),
       VerbS,
       Lit(Zeros(60) \o Zeros(62) \o <<"4", "2">>),
       VerbS,
       Lit(Zeros(60)) >>

(* the digits of a non-negative integer in base b, most significant first *)
RECURSIVE Digits(_, _)
Digits(n, b) ==
    IF n < b THEN <<LowerHex[n + 1]>>
    ELSE Digits(n \div b, b) \o <<LowerHex[(n % b) + 1]>>

(* variant: the integer is written in decimal *)
FormatHex64_Decimal(n) ==
    Zeros(64 - Len(Digits(n, 10))) \o Digits(n, 10)

(* the verb %064x on a non-negative integer: its hex digits, padded on the *)
(* left with zeros to 64 characters                                        *)
FormatHex64(n) ==
    Zeros(64 - Len(Digits(n, 16))) \o Digits(n, 16)

(* fmt.Sprintf: the pieces of the format in order, each verb taking the    *)
(* next argument                                                           *)
RECURSIVE Sprintf(_, _)
Sprintf(format, a) ==
    IF format = <<>> THEN <<>>
    ELSE LET piece == Head(format)
         IN  IF piece.verb = "lit" THEN piece.text \o Sprintf(Tail(format), a)
             ELSE IF piece.verb = "%s" THEN Head(a) \o Sprintf(Tail(format), Tail(a))
             ELSE FormatHex64(Head(a)) \o Sprintf(Tail(format), Tail(a))

(* the argument values tried *)
FromAddrs     == {fromAddr, Repeat("f", 40)}
RecallTypes   == {0, 1, 255}
Timestamps    == {100, 2147483647}
Vs            == {27, 28}
PubkeyStrings == {fromPubkeyHexString,
                  HexEncode(SerializeCompressed(<<S256.Gx, S256.Gy>>))}

PayloadArgs ==
    [fromAddr : FromAddrs, recallType : RecallTypes, timestamp : Timestamps,
     v : Vs, fromPubkey : PubkeyStrings, toPubkey : PubkeyStrings]

(* payloadStr of Test_ContractCall *)
BuildPayload(a) ==
    Sprintf(payloadTemplate,
            << functionSig, a.fromAddr, a.recallType, a.timestamp,
               rHexString, sHexString, a.v,
               HexEncode(StringBytes(a.fromPubkey)),
               HexEncode(StringBytes(a.toPubkey)) >>)

----------------------------------------------------------------------------
(* Decoding an event log (Test_ContractQuery, Test_QueryContractEvents) *)

(* a uint64 as 16 hex digit values, most significant first *)
Zero64 == Repeat(0, 16)
MaxUint64 == Repeat(15, 16)

RECURSIVE NibblesOf(_, _)
NibblesOf(n, w) ==
    IF w = 0 THEN <<>> ELSE NibblesOf(n \div 16, w - 1) \o <<n % 16>>

U64(n) == NibblesOf(n, 16)

(* strconv.ParseUint(s, 16, 64), from the accumulator n on: a character    *)
(* that is no digit is a syntax error; an accumulator of 2^60 or more      *)
(* cannot take another digit and is a range error, with the maximum value  *)
RECURSIVE ParseFrom(_, _)
ParseFrom(s, n) ==
    IF s = <<>> THEN [val |-> n, err |-> ""]
    ELSE IF ~IsHexChar(Head(s)) THEN [val |-> Zero64, err |-> "ErrSyntax"]
    ELSE IF n[1] # 0 THEN [val |-> MaxUint64, err |-> "ErrRange"]
    ELSE ParseFrom(Tail(s), Tail(n) \o <<HexVal(Head(s))>>)

ParseUint(s) ==
    IF s = <<>> THEN [val |-> Zero64, err |-> "ErrSyntax"]
    ELSE ParseFrom(s, Zero64)

(* the character ranges read from a log item *)
FieldRanges ==
    [revokeType |-> <<128, 192>>, timestamp  |-> <<192, 256>>,
     fromPubkey |-> <<320, 452>>, toPubkey   |-> <<576, 708>>]

(* item[lo:hi]: a run-time panic when hi is beyond the string *)
GoSlice(item, range) ==
    IF range[2] > Len(item) THEN [str |-> <<>>, panicked |-> TRUE]
    ELSE [str |-> Slice(item, range[1], range[2]), panicked |-> FALSE]

NoValue == [val |-> Zero64, err |-> ""]

NoDec == [op |-> "none", item |-> <<>>, revokeTypeStr |-> <<>>,
          timestampStr |-> <<>>, fromPubkeyStr |-> <<>>, toPubkeyStr |-> <<>>,
          revokeType |-> NoValue, timestamp |-> NoValue,
          err |-> "", panicked |-> FALSE]

(* the four slices, in the order of the code; the first one out of range   *)
(* ends the run                                                            *)
SliceFields(opname, item) ==
    LET a == GoSlice(item, FieldRanges.revokeType)
        b == GoSlice(item, FieldRanges.timestamp)
        c == GoSlice(item, FieldRanges.fromPubkey)
        d == GoSlice(item, FieldRanges.toPubkey)
    IN  IF a.panicked \/ b.panicked \/ c.panicked \/ d.panicked
        THEN [NoDec EXCEPT !.op = opname, !.item = item, !.panicked = TRUE]
        ELSE [NoDec EXCEPT !.op = opname, !.item = item,
                           !.revokeTypeStr = a.str, !.timestampStr = b.str,
                           !.fromPubkeyStr = c.str, !.toPubkeyStr = d.str]

(* the body of Test_ContractQuery: the slices alone *)
ContractQueryItem(item) == SliceFields("ContractQuery", item)

(* the loop body of Test_QueryContractEvents: the slices, then the two     *)
(* integers, whose parse errors are dropped                                *)
QueryContractEventsItem(item) ==
    LET f == SliceFields("QueryContractEvents", item)
    IN  IF f.panicked THEN f
        ELSE [f EXCEPT !.revokeType = ParseUint(f.revokeTypeStr),
                       !.timestamp = ParseUint(f.timestampStr)]

(* the log strings tried: the payload string itself and its prefixes, cut  *)
(* at and just before the end of each field                                *)
LogLens == {0, 127, 191, 192, 255, 256, 451, 452, 707, 708}

LogItems == {payloadStr} \cup {SubSeq(payloadStr, 1, n) : n \in LogLens}

InitCodec ==
    /\ KmInit
    /\ RoIdle
    /\ AddrIdle
    /\ args \in PayloadArgs
    /\ payloadStr = <<>>
    /\ dec = NoDec

ContractCall ==
    /\ payloadStr = <<>>
    /\ payloadStr' = BuildPayload(args)
    /\ UNCHANGED <<args, dec, kmVars, roVars, addrVars>>

ContractQuery ==
    /\ payloadStr # <<>>
    /\ \E item \in LogItems : dec' = ContractQueryItem(item)
    /\ UNCHANGED <<args, payloadStr, kmVars, roVars, addrVars>>

QueryContractEvents ==
    /\ payloadStr # <<>>
    /\ \E item \in LogItems : dec' = QueryContractEventsItem(item)
    /\ UNCHANGED <<args, payloadStr, kmVars, roVars, addrVars>>

NextCodec ==
    \/ ContractCall
    \/ ContractQuery
    \/ QueryContractEvents

SpecCodec == InitCodec /\ [][NextCodec]_vars

----------------------------------------------------------------------------
(* Properties of the payload and of the log decode *)

DecodeOps == {"ContractQuery", "QueryContractEvents"}

(* C3: bounds-checked log decode.  For every log string and each of the    *)
(* four fields read, at characters [128,192), [192,256), [320,452) and     *)
(* [576,708): a string shorter than the end of the field makes the decode  *)
(* fail with a TruncatedLog error value; the decode never aborts the       *)
(* program and never returns a shorter string.                             *)
C3_BoundsCheckedDecode ==
    dec.op \in DecodeOps =>
        /\ ~dec.panicked
        /\ \A f \in DOMAIN FieldRanges :
            Len(dec.item) < FieldRanges[f][2] => dec.err = "TruncatedLog"

(* C4, as claimed: decoding the payload string itself at the ranges of the *)
(* log decode, [128,192), [192,256), [320,452), [576,708), and parsing the *)
(* two integers in base 16 gives back recallType, timestamp and the two    *)
(* 66-byte blobs.                                                          *)
C4_RoundTripAtLogRanges ==
    (dec.op = "QueryContractEvents" /\ dec.item = payloadStr) =>
        /\ ~dec.panicked
        /\ dec.revokeType = [val |-> U64(args.recallType), err |-> ""]
        /\ dec.timestamp = [val |-> U64(args.timestamp), err |-> ""]
        /\ HexDecodeString(dec.fromPubkeyStr) =
               [bz |-> StringBytes(args.fromPubkey), err |-> ""]
        /\ HexDecodeString(dec.toPubkeyStr) =
               [bz |-> StringBytes(args.toPubkey), err |-> ""]

(* where the format string puts the four fields, in characters: after the  *)
(* 8 characters of the selector, type and timestamp are head words 3 and   *)
(* 4, and each blob follows its length word in the tail                    *)
PayloadRanges ==
    [recallType |-> <<200, 264>>, timestamp |-> <<264, 328>>,
     fromPubkey |-> <<584, 716>>, toPubkey  |-> <<840, 972>>]

(* C4, amended: slicing the payload string at the ranges where the payload *)
(* holds the fields, [200,264), [264,328), [584,716), [840,972), and       *)
(* parsing the two integers in base 16 gives back the (non-negative)       *)
(* recallType and timestamp and the two 66-byte blobs.                     *)
C4_RoundTripAtPayloadRanges ==
    payloadStr # <<>> =>
        LET field(f) == GoSlice(payloadStr, PayloadRanges[f])
        IN  /\ \A f \in DOMAIN PayloadRanges : ~field(f).panicked
            /\ ParseUint(field("recallType").str) =
                   [val |-> U64(args.recallType), err |-> ""]
            /\ ParseUint(field("timestamp").str) =
                   [val |-> U64(args.timestamp), err |-> ""]
            /\ HexDecodeString(field("fromPubkey").str) =
                   [bz |-> StringBytes(args.fromPubkey), err |-> ""]
            /\ HexDecodeString(field("toPubkey").str) =
                   [bz |-> StringBytes(args.toPubkey), err |-> ""]

(* the payload of the largest type and timestamp tried has been built and  *)
(* decoded as a log item                                                   *)
C4_Witness ==
    /\ payloadStr # <<>>
    /\ args.recallType = 255
    /\ args.timestamp = 2147483647
    /\ args.fromPubkey # args.toPubkey
    /\ dec.op = "QueryContractEvents"
    /\ dec.item = payloadStr

(* a small number as a 32-byte big-endian word *)
U256(n) == Repeat(0, 29) \o <<n \div 65536, (n \div 256) % 256, n % 256>>

(* the 32-byte word at a byte position counted from the first head word *)
WordAt(bz, off) == SubSeq(bz, 4 + off + 1, 4 + off + 32)

(* n rounded up to a multiple of 32 *)
PadTo32(n) == ((n + 31) \div 32) * 32

(* a tail entry at off holds blob: its length word, then the content       *)
(* right-padded with zeros to a multiple of 32 bytes                       *)
IsTailEntry(bz, off, blob) ==
    /\ WordAt(bz, off) = U256(Len(blob))
    /\ SubSeq(bz, 4 + off + 32 + 1, 4 + off + 32 + PadTo32(Len(blob))) =
           blob \o Repeat(0, PadTo32(Len(blob)) - Len(blob))

(* C9: head/tail offset arithmetic.  After the 4-byte selector the head is *)
(* 8 words of 32 bytes; the offset word of each blob is the byte position, *)
(* from the first head word, of the blob's length word: the head length    *)
(* plus the sizes of the earlier tail entries (length word and padded      *)
(* content).  For the two 66-byte blobs the offset words are 0x100 and     *)
(* 0x180, each length word is 0x42 and the payload has 4 + 32*16 bytes.    *)
C9_HeadTailOffsets ==
    payloadStr # <<>> =>
        LET h     == HexDecodeString(payloadStr)
            blob1 == StringBytes(args.fromPubkey)
            blob2 == StringBytes(args.toPubkey)
            off1  == 32 * 8
            off2  == off1 + 32 + PadTo32(Len(blob1))
            end   == off2 + 32 + PadTo32(Len(blob2))
        IN  /\ h.err = ""
            /\ SubSeq(h.bz, 1, 4) = <<170, 168, 129, 133>>
            /\ WordAt(h.bz, 0) = U256(off1)
            /\ WordAt(h.bz, 32) = U256(off2)
            /\ IsTailEntry(h.bz, off1, blob1)
            /\ IsTailEntry(h.bz, off2, blob2)
            /\ Len(h.bz) = 4 + end
            /\ off1 = 256 /\ off2 = 384 /\ Len(blob1) = 66 /\ Len(blob2) = 66
            /\ Len(h.bz) = 4 + 32 * 16

(* a payload with two different blobs *)
C9_Witness ==
    /\ payloadStr # <<>>
    /\ args.fromPubkey # args.toPubkey
    /\ args.fromAddr = fromAddr

====
